---- MODULE Spec2Model ----
(***************************************************************************)
(* Model of the Ansible language server (server/src/server.ts) and of its  *)
(* external-process runner (exec.ts).                                       *)
(*                                                                         *)
(* JavaScript strings are sequences of one-character strings, so that      *)
(* split, trim, startsWith, substring and slice are computed, not assumed. *)
(* JavaScript values that may be undefined or null are tagged records.     *)
(***************************************************************************)
EXTENDS Integers, Sequences, FiniteSets, TLC

(***************************************************************************)
(* Bounds of the model.                                                    *)
(***************************************************************************)
\* Largest number a configuration-change event carries (besides 0 and -1).
MaxCfg == 1
\* Number of external processes in flight at the same time.
MaxPending == 2
\* Largest number of lines of a generated stderr text.
MaxLines == 2

(***************************************************************************)
(* State.                                                                  *)
(***************************************************************************)
VARIABLES
    diagnostics,          \* let diagnostics: Diagnostic[]
    maxNumberOfProblems,  \* let maxNumberOfProblems: number
    documents,            \* the open documents of TextDocuments, in order
    procs,                \* the child processes whose callback has not run
    event,                \* the event handled last
    effects,              \* what the handler of that event did, in order
    lastRun               \* the run whose callback ran last, and its result

(***************************************************************************)
(* JavaScript values.                                                      *)
(***************************************************************************)
Undefined == [t |-> "undefined"]
Null == [t |-> "null"]
Num(n) == [t |-> "number", n |-> n]
\* An object: o maps each property the object has to its value.
Obj(o) == [t |-> "object", o |-> o]
\* The empty property map.
NoProps == [p \in {} |-> Undefined]

IsNum(v) == v.t = "number"

\* ToBoolean of the values the model uses.
Truthy(v) ==
    CASE v.t = "undefined" -> FALSE
      [] v.t = "null" -> FALSE
      [] v.t = "number" -> v.n # 0
      [] OTHER -> TRUE

\* a || b
OrElseNullish(a, b) == IF a.t \in {"undefined", "null"} THEN b ELSE a
OrElse(a, b) == IF Truthy(a) THEN a ELSE b

\* problems < max, for a number problems and any value max:
\* the comparison with undefined (NaN) is false.
LessThan(problems, max) == IsNum(max) /\ problems < max.n

\* Reading a property of undefined or null throws a TypeError.
Throws(v) == v.t \in {"undefined", "null"}
\* v.p for a value v that does not throw.
Get(v, p) == IF v.t = "object" /\ p \in DOMAIN v.o THEN v.o[p] ELSE Undefined

(***************************************************************************)
(* Strings.                                                                *)
(***************************************************************************)
WARNING == <<"[", "W", "A", "R", "N", "I", "N", "G", "]", " ">>
ERROR == <<"E", "R", "R", "O", "R", "!", " ">>
FilePrefix == <<"f", "i", "l", "e", ":">>
DiagnosticSeverity == [Error |-> "Error", Warning |-> "Warning"]
NumberMAX_VALUE == "Number.MAX_VALUE"
DefaultMax == 100

\* The code units String.prototype.trim removes (WhiteSpace and
\* LineTerminator of ECMAScript).  A code unit with no TLA+ escape is
\* written by its name, as one element of the string.
WhiteSpace ==
    { "\t", "\n", "U+000B", "\f", "\r", " ", "U+00A0", "U+1680",
      "U+2000", "U+2001", "U+2002", "U+2003", "U+2004", "U+2005", "U+2006",
      "U+2007", "U+2008", "U+2009", "U+200A", "U+2028", "U+2029", "U+202F",
      "U+205F", "U+3000", "U+FEFF" }

\* s.startsWith(p)
startsWith(s, p) == Len(s) >= Len(p) /\ SubSeq(s, 1, Len(p)) = p

\* s.substring(n) and s.slice(n), for 0 <= n
substring(s, n) == SubSeq(s, n + 1, Len(s))

\* s.trim()
RECURSIVE trimStart(_)
trimStart(s) ==
    IF s # <<>> /\ Head(s) \in WhiteSpace THEN trimStart(Tail(s)) ELSE s
RECURSIVE trimEnd(_)
trimEnd(s) ==
    IF s # <<>> /\ s[Len(s)] \in WhiteSpace
    THEN trimEnd(SubSeq(s, 1, Len(s) - 1)) ELSE s
trim(s) == trimEnd(trimStart(s))

\* s.split(/\r?\n/g): the lines done so far, the line being read, the rest.
RECURSIVE splitFrom(_, _, _)
splitFrom(done, cur, rest) ==
    IF rest = <<>> THEN Append(done, cur)
    ELSE IF Head(rest) = "\n"
         THEN splitFrom(Append(done, cur), <<>>, Tail(rest))
    ELSE IF Head(rest) = "\r" /\ Len(rest) >= 2 /\ rest[2] = "\n"
         THEN splitFrom(Append(done, cur), <<>>, Tail(Tail(rest)))
    ELSE splitFrom(done, Append(cur, Head(rest)), Tail(rest))
split(s) == splitFrom(<<>>, <<>>, s)

\* args.join(' ')
RECURSIVE join(_)
join(args) ==
    IF args = <<>> THEN <<>>
    ELSE IF Len(args) = 1 THEN args[1]
    ELSE args[1] \o <<" ">> \o join(Tail(args))

(***************************************************************************)
(* The classification of one stderr line and the loop of handler.          *)
(***************************************************************************)
\* The severity and message the body of the loop computes for lines[i].
classifyLineNoTrim(rawLine) ==
    LET line == rawLine IN
    IF startsWith(line, WARNING)
    THEN [sev |-> DiagnosticSeverity.Warning,
          msg |-> substring(line, Len(WARNING))]
    ELSE IF startsWith(line, ERROR)
    THEN [sev |-> DiagnosticSeverity.Error,
          msg |-> substring(line, Len(ERROR))]
    ELSE [sev |-> "null", msg |-> <<>>]
classifyLine(rawLine) ==
    LET line == trim(rawLine) IN
    IF startsWith(line, WARNING)
    THEN [sev |-> DiagnosticSeverity.Warning,
          msg |-> substring(line, Len(WARNING))]
    ELSE IF startsWith(line, ERROR)
    THEN [sev |-> DiagnosticSeverity.Error,
          msg |-> substring(line, Len(ERROR))]
    ELSE [sev |-> "null", msg |-> <<>>]

\* The diagnostic pushed for line index i (zero-based).
makeDiagnosticOneBased(c, i) ==
    [severity |-> c.sev,
     range |-> [start |-> [line |-> i + 1, character |-> NumberMAX_VALUE],
                end |-> [line |-> i + 1, character |-> NumberMAX_VALUE]],
     message |-> c.msg,
     source |-> "ex"]
makeDiagnostic(c, i) ==
    [severity |-> c.sev,
     range |-> [start |-> [line |-> i, character |-> NumberMAX_VALUE],
                end |-> [line |-> i, character |-> NumberMAX_VALUE]],
     message |-> c.msg,
     source |-> "ex"]

\* The loop condition: i < lines.length && problems < maxNumberOfProblems
loopConditionOffByOne(lines, i, problems, max) ==
    i < Len(lines) /\ IsNum(max) /\ problems <= max.n
loopConditionCountsLines(lines, i, problems, max) ==
    i < Len(lines) /\ LessThan(i, max)
loopCondition(lines, i, problems, max) ==
    i < Len(lines) /\ LessThan(problems, max)

\* The for loop, from index i with problems found and diags pushed so far.
\* Yields the list and the index at which scanning stopped.
RECURSIVE handlerLoop(_, _, _, _, _)
handlerLoop(lines, i, problems, diags, max) ==
    IF ~loopCondition(lines, i, problems, max)
    THEN [diagnostics |-> diags, i |-> i]
    ELSE LET c == classifyLine(lines[i + 1]) IN
         IF c.sev # "null"
         THEN handlerLoop(lines, i + 1, problems + 1,
                          Append(diags, makeDiagnostic(c, i)), max)
         ELSE handlerLoop(lines, i + 1, problems, diags, max)

\* handler(result): the new value of the diagnostics list.
handlerScan(stderr, max) == handlerLoop(split(stderr), 0, 0, <<>>, max)
handlerOnlyOnFailure(result, max) ==
    IF result.exitCode = Num(0) THEN <<>>
    ELSE handlerScan(result.stderr, max).diagnostics
handlerNoCleanUp(result, max) ==
    handlerLoop(split(result.stderr), 0, 0, diagnostics, max).diagnostics
handler(result, max) == handlerScan(result.stderr, max).diagnostics

(***************************************************************************)
(* Documents, settings payloads and process results the events carry.      *)
(***************************************************************************)
UriA == <<"f", "i", "l", "e", ":", "/", "/", "/", "a">>
\* A file URI without the two slashes of an authority: it passes the
\* file: filter and its path is /d/b.
UriB == <<"f", "i", "l", "e", ":", "/", "d", "/", "b">>
UriU == <<"u", "n", "t", "i", "t", "l", "e", "d", ":", "c">>
Uris == {UriA, UriB, UriU}

\* The numbers a settings payload carries in maxNumberOfProblems.
CfgNumbers == {-1} \cup (0 .. MaxCfg)

\* change.settings: missing, without the nested object, with the nested
\* object lacking the field, and with the field null or a number.
AnsibleSettings ==
    {Obj(NoProps), Obj([p \in {"maxNumberOfProblems"} |-> Null])}
    \cup {Obj([p \in {"maxNumberOfProblems"} |-> Num(n)]) : n \in CfgNumbers}
SettingsPayloads ==
    {Null, Obj(NoProps)}
    \cup {Obj([p \in {"ansibleLanguageServer"} |-> a]) : a \in AnsibleSettings}

\* Lines of the external program's stderr.
LineW == WARNING \o <<"a">>
LineE == ERROR \o <<"b">>
LineX == <<"x">>
NL == <<"\n">>

\* The error child_process.exec passes to its callback: null, or an error
\* with the exit code.
ExecError(code) == Obj([p \in {"code"} |-> Num(code)])
ExecErrors == {Null, ExecError(2)}

\* What the runs of the server deliver: a clean run, a failed run with a
\* warning line and an error line, and a run with four lines of which
\* three match.
Outcome(error, stdout, stderr) ==
    [error |-> error, stdout |-> stdout, stderr |-> stderr]
TwoLines == LineW \o NL \o LineE
FourLines == LineX \o NL \o LineE \o NL \o LineW \o NL \o LineE
RunOutcomes ==
    { Outcome(Null, <<"o", "k">>, <<>>),
      Outcome(ExecError(2), <<>>, TwoLines),
      Outcome(Null, <<>>, FourLines) }

(***************************************************************************)
(* The state after construction.                                           *)
(***************************************************************************)
vars == <<diagnostics, maxNumberOfProblems, documents, procs,
          event, effects, lastRun>>

\* new ExecResult(); result.exitCode = null
newExecResult == [stdout |-> <<>>, stderr |-> <<>>, exitCode |-> Null]

NoRun == [cmdLine |-> <<>>, result |-> newExecResult]

\* repeat: the event is a callback that delivers the stderr text that the
\* callback handled just before it delivered.
Ev(name, uri, settings, pid) ==
    [name |-> name, uri |-> uri, settings |-> settings, pid |-> pid,
     repeat |-> FALSE]

Init ==
    /\ diagnostics = <<>>
    /\ maxNumberOfProblems = Undefined
    /\ documents = <<>>
    /\ procs = {}
    /\ event = Ev("init", <<>>, Undefined, 0)
    /\ effects = <<>>
    /\ lastRun = NoRun

(***************************************************************************)
(* NodeExec.exec and validateTextDocument, as functions of the globals st  *)
(* = [diagnostics, maxNumberOfProblems, procs, effects].                   *)
(***************************************************************************)
Globals ==
    [diagnostics |-> diagnostics, maxNumberOfProblems |-> maxNumberOfProblems,
     procs |-> procs, effects |-> <<>>]

\* The number that identifies a new child process: the least one not in use.
FreshPid(ps) ==
    CHOOSE n \in 1 .. Cardinality(ps) + 1 :
        /\ \A q \in ps : q.pid # n
        /\ \A m \in 1 .. n - 1 : \E q \in ps : q.pid = m

\* NodeExec.exec: builds the command line and starts the child process; the
\* callback runs in a later turn of the event loop.
execSync(st, filename, cmdLineArgs) ==
    LET cmdLine == filename \o <<" ">> \o join(cmdLineArgs)
        result == [newExecResult EXCEPT !.exitCode = Num(0)]
    IN [st EXCEPT
          !.diagnostics = handler(result, st.maxNumberOfProblems),
          !.effects = Append(@, [op |-> "exec", pid |-> FreshPid(st.procs),
                                 filename |-> filename,
                                 cmdLineArgs |-> cmdLineArgs,
                                 cmdLine |-> cmdLine])]
exec(st, filename, cmdLineArgs) ==
    LET cmdLine == filename \o <<" ">> \o join(cmdLineArgs)
        result == newExecResult
    IN [st EXCEPT
          !.procs = @ \cup {[pid |-> FreshPid(st.procs), cmdLine |-> cmdLine,
                             result |-> result]},
          !.effects = Append(@, [op |-> "exec", pid |-> FreshPid(st.procs),
                                 filename |-> filename,
                                 cmdLineArgs |-> cmdLineArgs,
                                 cmdLine |-> cmdLine])]

AnsiblePlaybook ==
    <<"a", "n", "s", "i", "b", "l", "e", "-", "p", "l", "a", "y", "b", "o",
      "o", "k">>

\* The argument list of line 131.
ArgsWholeUri(playbookUri) ==
    << <<"-", "i">>,
       <<"\"", "l", "o", "c", "a", "l", "h", "o", "s", "t", ",", "\"">>,
       <<"-", "c">>,
       <<"l", "o", "c", "a", "l">>,
       <<"-", "-", "s", "y", "n", "t", "a", "x", "-", "c", "h", "e", "c", "k">>,
       playbookUri >>
Args(playbookUri) ==
    << <<"-", "i">>,
       <<"\"", "l", "o", "c", "a", "l", "h", "o", "s", "t", ",", "\"">>,
       <<"-", "c">>,
       <<"l", "o", "c", "a", "l">>,
       <<"-", "-", "s", "y", "n", "t", "a", "x", "-", "c", "h", "e", "c", "k">>,
       substring(playbookUri, 7) >>

validateTextDocumentNoFilter(st, playbookUri) ==
    LET logged == [st EXCEPT !.effects =
                     Append(@, [op |-> "log",
                                message |-> substring(playbookUri, 7)])]
        spawned == exec(logged, AnsiblePlaybook, Args(playbookUri))
    IN [spawned EXCEPT !.effects =
           Append(@, [op |-> "sendDiagnostics", uri |-> playbookUri,
                      diagnostics |-> spawned.diagnostics])]
validateTextDocument(st, playbookUri) ==
    IF ~startsWith(playbookUri, FilePrefix) THEN st
    ELSE LET logged == [st EXCEPT !.effects =
                          Append(@, [op |-> "log",
                                     message |-> substring(playbookUri, 7)])]
             spawned == exec(logged, AnsiblePlaybook, Args(playbookUri))
         IN [spawned EXCEPT !.effects =
                Append(@, [op |-> "sendDiagnostics", uri |-> playbookUri,
                           diagnostics |-> spawned.diagnostics])]

\* documents.all().forEach(validateTextDocument)
RECURSIVE forEachValidateInterleaved(_, _)
forEachValidateInterleaved(st, docs) ==
    IF docs = <<>> THEN st
    ELSE LET validated == validateTextDocument(st, Head(docs))
             result == [newExecResult EXCEPT
                          !.stderr = WARNING \o <<"a">>,
                          !.exitCode = Num(0)]
             called == [validated EXCEPT
                          !.diagnostics =
                              handler(result, validated.maxNumberOfProblems)]
         IN forEachValidateInterleaved(called, Tail(docs))
RECURSIVE forEachValidate(_, _)
forEachValidate(st, docs) ==
    IF docs = <<>> THEN st
    ELSE forEachValidate(validateTextDocument(st, Head(docs)), Tail(docs))

\* The globals after a handler, written back to the variables.
Commit(st) ==
    /\ diagnostics' = st.diagnostics
    /\ maxNumberOfProblems' = st.maxNumberOfProblems
    /\ procs' = st.procs
    /\ effects' = st.effects

IsOpen(uri) == \E i \in 1 .. Len(documents) : documents[i] = uri
Remove(docs, uri) == SelectSeq(docs, LAMBDA d : d # uri)

(***************************************************************************)
(* Events.                                                                 *)
(***************************************************************************)
\* A document is opened: TextDocuments tracks it and emits onDidChangeContent.
DidOpen(uri) ==
    /\ ~IsOpen(uri)
    /\ LET st == validateTextDocument(Globals, uri) IN
         /\ Cardinality(st.procs) <= MaxPending
         /\ Commit(st)
    /\ documents' = Append(documents, uri)
    /\ event' = Ev("didOpen", uri, Undefined, 0)
    /\ UNCHANGED lastRun

\* documents.onDidChangeContent for a document that is open.
DidChangeContent(uri) ==
    /\ IsOpen(uri)
    /\ LET st == validateTextDocument(Globals, uri) IN
         /\ Cardinality(st.procs) <= MaxPending
         /\ Commit(st)
    /\ event' = Ev("didChangeContent", uri, Undefined, 0)
    /\ UNCHANGED <<documents, lastRun>>

\* A document is closed: TextDocuments stops tracking it.
DidClose(uri) ==
    /\ IsOpen(uri)
    /\ documents' = Remove(documents, uri)
    /\ event' = Ev("didClose", uri, Undefined, 0)
    /\ effects' = <<>>
    /\ UNCHANGED <<diagnostics, maxNumberOfProblems, procs, lastRun>>

\* connection.onDidChangeConfiguration.  When settings or its nested object
\* is missing, the property read of line 79 throws before anything is
\* assigned: the handler ends there and the connection goes on.
DidChangeConfiguration(settings) ==
    /\ event' = Ev("didChangeConfiguration", <<>>, settings, 0)
    /\ IF Throws(settings) \/ Throws(Get(settings, "ansibleLanguageServer"))
       THEN /\ effects' = <<[op |-> "throw", error |-> "TypeError"]>>
            /\ UNCHANGED <<diagnostics, maxNumberOfProblems, procs>>
       ELSE LET field == Get(Get(settings, "ansibleLanguageServer"),
                             "maxNumberOfProblems")
                set == [Globals EXCEPT !.maxNumberOfProblems =
                                          OrElse(field, Num(DefaultMax))]
                st == forEachValidate(set, documents)
            IN /\ Cardinality(st.procs) <= MaxPending
               /\ Commit(st)
    /\ UNCHANGED <<documents, lastRun>>

\* The child process p has terminated: the callback of NodeExec.exec fills
\* the result and calls handler.
ExecCallbackAlwaysZero(p, error, stdout, stderr) ==
    /\ p \in procs
    /\ LET result == [p.result EXCEPT
                        !.stdout = stdout,
                        !.stderr = stderr,
                        !.exitCode = Num(0)]
       IN /\ diagnostics' = handler(result, maxNumberOfProblems)
          /\ lastRun' = [cmdLine |-> p.cmdLine, result |-> result]
    /\ procs' = procs \ {p}
    /\ event' = [Ev("execCallback", <<>>, Undefined, p.pid) EXCEPT
                    !.repeat = /\ event.name = "execCallback"
                               /\ lastRun.result.stderr = stderr]
    /\ effects' = <<>>
    /\ UNCHANGED <<maxNumberOfProblems, documents>>
ExecCallbackNewestOnly(p, error, stdout, stderr) ==
    /\ p \in procs
    /\ LET result == [p.result EXCEPT
                        !.stdout = stdout,
                        !.stderr = stderr,
                        !.exitCode = IF Truthy(error) THEN Get(error, "code")
                                     ELSE Num(0)]
       IN /\ diagnostics' = IF \E q \in procs : q.pid > p.pid
                            THEN diagnostics
                            ELSE handler(result, maxNumberOfProblems)
          /\ lastRun' = [cmdLine |-> p.cmdLine, result |-> result]
    /\ procs' = procs \ {p}
    /\ event' = [Ev("execCallback", <<>>, Undefined, p.pid) EXCEPT
                    !.repeat = /\ event.name = "execCallback"
                               /\ lastRun.result.stderr = stderr]
    /\ effects' = <<>>
    /\ UNCHANGED <<maxNumberOfProblems, documents>>
ExecCallback(p, error, stdout, stderr) ==
    /\ p \in procs
    /\ LET result == [p.result EXCEPT
                        !.stdout = stdout,
                        !.stderr = stderr,
                        !.exitCode = IF Truthy(error) THEN Get(error, "code")
                                     ELSE Num(0)]
       IN /\ diagnostics' = handler(result, maxNumberOfProblems)
          /\ lastRun' = [cmdLine |-> p.cmdLine, result |-> result]
    /\ procs' = procs \ {p}
    /\ event' = [Ev("execCallback", <<>>, Undefined, p.pid) EXCEPT
                    !.repeat = /\ event.name = "execCallback"
                               /\ lastRun.result.stderr = stderr]
    /\ effects' = <<>>
    /\ UNCHANGED <<maxNumberOfProblems, documents>>

\* The positions of the completion requests.
Positions ==
    { [textDocument |-> [uri |-> UriA], position |-> [line |-> 0, character |-> 0]],
      [textDocument |-> [uri |-> UriU], position |-> [line |-> 3, character |-> 7]] }

Str(s) == [t |-> "string", s |-> s]

\* connection.onCompletion: the value returned.
onCompletionByPosition(textDocumentPosition) ==
    IF textDocumentPosition.position.line = 0
    THEN << [label |-> "TypeScript", kind |-> "Text", data |-> 1,
             detail |-> Undefined, documentation |-> Undefined],
            [label |-> "JavaScript", kind |-> "Text", data |-> 2,
             detail |-> Undefined, documentation |-> Undefined] >>
    ELSE <<>>
onCompletion(textDocumentPosition) ==
    << [label |-> "TypeScript", kind |-> "Text", data |-> 1,
        detail |-> Undefined, documentation |-> Undefined],
       [label |-> "JavaScript", kind |-> "Text", data |-> 2,
        detail |-> Undefined, documentation |-> Undefined] >>

\* The items of the completion-resolve requests: the two of the list and one
\* with another identifier.
ResolveItems ==
    { [label |-> "TypeScript", kind |-> "Text", data |-> 1,
       detail |-> Undefined, documentation |-> Undefined],
      [label |-> "JavaScript", kind |-> "Text", data |-> 2,
       detail |-> Undefined, documentation |-> Undefined],
      [label |-> "Other", kind |-> "Text", data |-> 3,
       detail |-> Undefined, documentation |-> Undefined] }

\* connection.onCompletionResolve: the value returned.
onCompletionResolve(item) ==
    IF item.data = 1
    THEN [item EXCEPT !.detail = Str("TypeScript details"),
                      !.documentation = Str("TypeScript documentation")]
    ELSE IF item.data = 2
    THEN [item EXCEPT !.detail = Str("JavaScript details"),
                      !.documentation = Str("JavaScript documentation")]
    ELSE item

\* A completion request.
Completion(textDocumentPosition) ==
    /\ event' = Ev("completion", textDocumentPosition.textDocument.uri,
                   Undefined, textDocumentPosition.position.line)
    /\ effects' = <<[op |-> "return",
                     items |-> onCompletion(textDocumentPosition)]>>
    /\ UNCHANGED <<diagnostics, maxNumberOfProblems, documents, procs,
                   lastRun>>

\* A completion-resolve request.
CompletionResolve(item) ==
    /\ event' = Ev("completionResolve", <<>>, Undefined, item.data)
    /\ effects' = <<[op |-> "return", items |-> <<onCompletionResolve(item)>>]>>
    /\ UNCHANGED <<diagnostics, maxNumberOfProblems, documents, procs,
                   lastRun>>

\* connection.onDidChangeWatchedFiles: logs only.
DidChangeWatchedFiles ==
    /\ event' = Ev("didChangeWatchedFiles", <<>>, Undefined, 0)
    /\ effects' = <<[op |-> "log", message |-> "We recevied a file change event"]>>
    /\ UNCHANGED <<diagnostics, maxNumberOfProblems, documents, procs,
                   lastRun>>

Next ==
    \/ \E uri \in Uris : DidOpen(uri)
    \/ \E uri \in Uris : DidChangeContent(uri)
    \/ \E uri \in Uris : DidClose(uri)
    \/ \E settings \in SettingsPayloads : DidChangeConfiguration(settings)
    \/ \E p \in procs, o \in RunOutcomes :
          ExecCallback(p, o.error, o.stdout, o.stderr)
    \/ \E textDocumentPosition \in Positions :
          Completion(textDocumentPosition)
    \/ \E item \in ResolveItems : CompletionResolve(item)
    \/ DidChangeWatchedFiles

Spec == Init /\ [][Next]_vars

(***************************************************************************)
(* The classification on its own: a server with one document open and its  *)
(* run of ansible-playbook in flight, under each value of the setting, that  *)
(* delivers any stderr text of up to MaxLines lines.                       *)
(***************************************************************************)
\* A line is a head, a body and optional surrounding white space.
LineHeads ==
    { <<>>, WARNING, ERROR,
      <<"[", "w", "a", "r", "n", "i", "n", "g", "]", " ">>,
      <<"E", "R", "R", "O", "R", "!">>,
      <<"x">> \o ERROR }
LineBodies == { <<>>, <<"a">> }
LinePads ==
    { [lead |-> <<>>, trail |-> <<>>],
      [lead |-> <<" ", "\f">>, trail |-> <<"U+00A0", "\t">>] }
GeneratedLines ==
    { pad.lead \o h \o b \o pad.trail :
        h \in LineHeads, b \in LineBodies, pad \in LinePads }

LineSeparators == { <<"\n">>, <<"\r", "\n">> }

RECURSIVE joinWith(_, _)
joinWith(ls, sep) ==
    IF Len(ls) = 1 THEN ls[1] ELSE ls[1] \o sep \o joinWith(Tail(ls), sep)

GeneratedStderr ==
    UNION { { joinWith(ls, sep) : ls \in [1 .. n -> GeneratedLines],
                                  sep \in LineSeparators } :
            n \in 1 .. MaxLines }

\* The values the setting can have: never set, or set by a configuration
\* change.
MaxSettings ==
    {Undefined} \cup {OrElse(Num(n), Num(DefaultMax)) : n \in CfgNumbers}

InitHandler ==
    /\ diagnostics = <<>>
    /\ maxNumberOfProblems \in MaxSettings
    /\ documents = <<UriA>>
    /\ LET st == validateTextDocument(
                    [diagnostics |-> <<>>,
                     maxNumberOfProblems |-> maxNumberOfProblems,
                     procs |-> {}, effects |-> <<>>], UriA)
       IN /\ procs = st.procs
          /\ effects = st.effects
    /\ event = Ev("didOpen", UriA, Undefined, 0)
    /\ lastRun = NoRun

NextHandler ==
    \E p \in procs, error \in ExecErrors, stderr \in GeneratedStderr :
        ExecCallback(p, error, <<>>, stderr)

SpecHandler == InitHandler /\ [][NextHandler]_vars

(***************************************************************************)
(* Vocabulary of the properties.                                           *)
(***************************************************************************)
\* The notifications the handler of the last event sent, in order.
Sent == SelectSeq(effects, LAMBDA e : e.op = "sendDiagnostics")
\* The processes the handler of the last event started, in order.
Started == SelectSeq(effects, LAMBDA e : e.op = "exec")

\* The command line of a run for the document uri.
CmdLineOf(uri) == AnsiblePlaybook \o <<" ">> \o join(Args(uri))

\* A callback has completed.
SomeRunCompleted == lastRun # NoRun

\* list is what the classification of the stderr of the last completed run
\* gives under one of the values the setting can have.
ClassifiesLastRun(list) ==
    \E max \in MaxSettings : list = handler(lastRun.result, max)

\* s = p followed by rest
IsPrefixAndRest(s, p, rest) == s = p \o rest
HasPrefix(s, p) == \E n \in 0 .. Len(s) : SubSeq(s, 1, n) = p

\* The diagnostic of severity sev and message msg for stderr line i.
DiagnosticAt(sev, i, msg) ==
    [severity |-> sev,
     range |-> [start |-> [line |-> i, character |-> NumberMAX_VALUE],
                end |-> [line |-> i, character |-> NumberMAX_VALUE]],
     message |-> msg,
     source |-> "ex"]

(***************************************************************************)
(* C1: every diagnostics notification carries the classification of the    *)
(* stderr of the most recently completed run, and that run is a run for    *)
(* the document the notification is published for.  Stated for the         *)
(* notifications sent once some run has completed.                         *)
(***************************************************************************)
C1_SentListIsOfThisDocument ==
    SomeRunCompleted =>
        \A i \in DOMAIN Sent :
            /\ ClassifiesLastRun(Sent[i].diagnostics)
            /\ lastRun.cmdLine = CmdLineOf(Sent[i].uri)

(***************************************************************************)
(* C2: the publish of a validation directly follows its spawn and comes    *)
(* before the callback of that spawn: when the handler that validated      *)
(* returns, the process is still in flight with no result delivered, and   *)
(* the list published is the one the last completed callback left (empty   *)
(* if none has completed), which is still the diagnostics list.            *)
(***************************************************************************)
C2_PublishBeforeOwnCallback ==
    \A i \in DOMAIN effects :
        effects[i].op = "sendDiagnostics" =>
            /\ i > 1
            /\ effects[i - 1].op = "exec"
            /\ effects[i - 1].cmdLine = CmdLineOf(effects[i].uri)
            /\ \E p \in procs :
                  /\ p.pid = effects[i - 1].pid
                  /\ p.cmdLine = effects[i - 1].cmdLine
                  /\ p.result = newExecResult
            /\ effects[i].diagnostics = diagnostics
            /\ IF SomeRunCompleted
               THEN ClassifiesLastRun(effects[i].diagnostics)
               ELSE effects[i].diagnostics = <<>>

\* A validation has published a non-empty list left by an earlier run while
\* its own process is in flight.
C2_Witness ==
    /\ Len(Sent) = 1
    /\ Len(Sent[1].diagnostics) = 2
    /\ SomeRunCompleted
    /\ \E p \in procs : p.cmdLine = CmdLineOf(Sent[1].uri)

(***************************************************************************)
(* C3: once the process of a validation has terminated with the warning    *)
(* line and the error line on stderr and its callback has run, the         *)
(* diagnostics list holds exactly the Warning and the Error diagnostic, in *)
(* line order.  Stated for every setting except a configured maximum       *)
(* below two.                                                              *)
(***************************************************************************)
C3_TwoLinesGiveTwoDiagnostics ==
    ( /\ event.name = "execCallback"
      /\ lastRun.result.stderr = TwoLines
      /\ ~(IsNum(maxNumberOfProblems) /\ maxNumberOfProblems.n < 2) )
    => diagnostics =
         << DiagnosticAt(DiagnosticSeverity.Warning, 0, <<"a">>),
            DiagnosticAt(DiagnosticSeverity.Error, 1, <<"b">>) >>

(***************************************************************************)
(* Vocabulary of the properties of the classification.                     *)
(***************************************************************************)
\* The lines of the stderr text the last callback classified.
LastLines == split(lastRun.result.stderr)

\* raw without its leading and trailing white space.
Stripped(raw) ==
    LET black == {i \in 1 .. Len(raw) : raw[i] \notin WhiteSpace} IN
    IF black = {} THEN <<>>
    ELSE SubSeq(raw, CHOOSE i \in black : \A j \in black : i <= j,
                     CHOOSE i \in black : \A j \in black : i >= j)

\* The line starts, after stripping, with one of the two prefixes.
IsMatch(raw) ==
    HasPrefix(Stripped(raw), WARNING) \/ HasPrefix(Stripped(raw), ERROR)

\* The zero-based indexes of the matching lines.
MatchingIndexes(lines) == {i \in 0 .. Len(lines) - 1 : IsMatch(lines[i + 1])}

\* The elements of a set of numbers, in increasing order.
RECURSIVE Ascending(_)
Ascending(S) ==
    IF S = {} THEN <<>>
    ELSE LET lo == CHOOSE x \in S : \A y \in S : x <= y
         IN <<lo>> \o Ascending(S \ {lo})

\* The first n elements of a sequence (none when n is not positive).
Take(seq, n) == SubSeq(seq, 1, n)
Min(a, b) == IF a <= b THEN a ELSE b

CallbackDone == event.name = "execCallback"

(***************************************************************************)
(* C4, as claimed: right after a callback the number of diagnostics is at  *)
(* least 0 and at most the configured maximum.                             *)
(***************************************************************************)
C4_CountAtMostMaximum ==
    (CallbackDone /\ IsNum(maxNumberOfProblems)) =>
        /\ Len(diagnostics) >= 0
        /\ Len(diagnostics) <= maxNumberOfProblems.n

(***************************************************************************)
(* C4, amended: right after a callback the number of diagnostics is at     *)
(* most the configured maximum when that is a number of 0 or more, and is  *)
(* 0 when the maximum is negative or has not been set.                     *)
(***************************************************************************)
C4_CountAtMostMaximumOrZero ==
    CallbackDone =>
        IF IsNum(maxNumberOfProblems) /\ maxNumberOfProblems.n >= 0
        THEN Len(diagnostics) <= maxNumberOfProblems.n
        ELSE Len(diagnostics) = 0

\* A callback has classified a text with more matching lines than the
\* maximum allows, and the list is full.
C4_Witness ==
    /\ CallbackDone
    /\ IsNum(maxNumberOfProblems)
    /\ maxNumberOfProblems.n >= 1
    /\ Cardinality(MatchingIndexes(LastLines)) > maxNumberOfProblems.n
    /\ Len(diagnostics) = maxNumberOfProblems.n

(***************************************************************************)
(* C5: with m matching lines and maximum k, the list after a callback is   *)
(* made of exactly the first min(k, m) matching lines, in stderr order,    *)
(* wherever the non-matching lines are, and the scan stops right after the *)
(* line that gave the k-th diagnostic.                                     *)
(***************************************************************************)
C5_FirstMatchingLinesOnly ==
    (CallbackDone /\ IsNum(maxNumberOfProblems)) =>
        LET k == maxNumberOfProblems.n
            matching == Ascending(MatchingIndexes(LastLines))
            m == Len(matching)
            emitted == Take(matching, Min(k, m))
            stop == handlerScan(lastRun.result.stderr, maxNumberOfProblems).i
        IN /\ Len(diagnostics) = Len(emitted)
           /\ \A j \in DOMAIN diagnostics :
                 diagnostics[j].range.start.line = emitted[j]
           /\ stop = IF k <= 0 THEN 0
                     ELSE IF m >= k THEN matching[k] + 1
                     ELSE Len(LastLines)

\* A non-matching line came first and the maximum is 1: the matching line
\* after it is reported.
C5_Witness ==
    /\ CallbackDone
    /\ maxNumberOfProblems = Num(1)
    /\ Len(LastLines) = 2
    /\ MatchingIndexes(LastLines) = {1}
    /\ Len(diagnostics) = 1
    /\ diagnostics[1].range.start.line = 1

(***************************************************************************)
(* C6: every diagnostic is a Warning whose message is the stripped line    *)
(* without the leading "[WARNING] ", or else an Error whose message is the *)
(* stripped line without the leading "ERROR! "; and, as long as the        *)
(* maximum is not reached, a line has a diagnostic exactly when it starts, *)
(* after stripping and in this very case, with one of the two prefixes.    *)
(***************************************************************************)
C6_PrefixClassificationExact ==
    CallbackDone =>
        /\ \A j \in DOMAIN diagnostics :
              LET d == diagnostics[j]
                  t == Stripped(LastLines[d.range.start.line + 1])
              IN IF HasPrefix(t, WARNING)
                 THEN /\ d.severity = DiagnosticSeverity.Warning
                      /\ IsPrefixAndRest(t, WARNING, d.message)
                 ELSE /\ d.severity = DiagnosticSeverity.Error
                      /\ IsPrefixAndRest(t, ERROR, d.message)
        /\ (IsNum(maxNumberOfProblems)
              /\ Len(diagnostics) < maxNumberOfProblems.n) =>
              \A i \in 0 .. Len(LastLines) - 1 :
                  IsMatch(LastLines[i + 1]) <=>
                     \E j \in DOMAIN diagnostics :
                        diagnostics[j].range.start.line = i

\* A line with white space around "[WARNING] a" (a space and a form feed
\* before, a no-break space and a tab after) has given the Warning "a".
C6_Witness ==
    /\ CallbackDone
    /\ \E j \in DOMAIN diagnostics :
          /\ diagnostics[j].severity = DiagnosticSeverity.Warning
          /\ diagnostics[j].message = <<"a">>
          /\ LastLines[diagnostics[j].range.start.line + 1]
                = <<" ", "\f">> \o WARNING \o <<"a", "U+00A0", "\t">>

(***************************************************************************)
(* Vocabulary of the properties of the events.                             *)
(***************************************************************************)
\* The URI uses the file-system scheme.
IsFileUri(uri) == HasPrefix(uri, FilePrefix)

\* The open documents with a file-system URI, in order.
OpenFileDocuments == SelectSeq(documents, IsFileUri)

ConfigurationChanged == event.name = "didChangeConfiguration"

\* The payload has the nested settings object.
HasNestedSettings(settings) ==
    /\ settings.t = "object"
    /\ "ansibleLanguageServer" \in DOMAIN settings.o
    /\ settings.o["ansibleLanguageServer"].t = "object"

\* The payload has the nested object and in it the number n.
CarriesNumber(settings, n) ==
    /\ HasNestedSettings(settings)
    /\ "maxNumberOfProblems" \in DOMAIN settings.o["ansibleLanguageServer"].o
    /\ settings.o["ansibleLanguageServer"].o["maxNumberOfProblems"].t
          = "number"
    /\ settings.o["ansibleLanguageServer"].o["maxNumberOfProblems"].n = n

(***************************************************************************)
(* C7: a content change or an opening of a document whose URI is not a     *)
(* file-system URI starts no process, publishes nothing and leaves the     *)
(* diagnostics list, the setting and the processes in flight as they were; *)
(* and whatever a handler does, it starts processes and publishes only for *)
(* file-system URIs.                                                       *)
(***************************************************************************)
C7_NonFileUriIsNoOp ==
    /\ [](\A i \in DOMAIN Sent : IsFileUri(Sent[i].uri))
    /\ [](Len(Started) = Len(Sent))
    /\ [][ ( /\ event'.name \in {"didOpen", "didChangeContent"}
             /\ ~IsFileUri(event'.uri) )
           => ( /\ effects' = <<>>
                /\ UNCHANGED <<diagnostics, maxNumberOfProblems, procs>> )
         ]_vars

\* The content of the untitled document has changed while a process was in
\* flight and the list was not empty.
C7_Witness ==
    /\ event.name = "didChangeContent"
    /\ event.uri = UriU
    /\ effects = <<>>
    /\ procs # {}
    /\ diagnostics # <<>>

(***************************************************************************)
(* C8: in every state the setting is a number, 100 unless a configuration  *)
(* change has supplied another one, and a callback classifies with it      *)
(* (with 100 before any configuration change).                             *)
(***************************************************************************)
C8_SettingIsANumberFromStartup ==
    /\ IsNum(maxNumberOfProblems)
    /\ CallbackDone =>
          diagnostics = handler(lastRun.result,
                                IF IsNum(maxNumberOfProblems)
                                THEN maxNumberOfProblems
                                ELSE Num(DefaultMax))

(***************************************************************************)
(* C9: after a configuration change whose nested settings object lacks     *)
(* maxNumberOfProblems or has it null or 0, the setting is 100; after one  *)
(* that carries another number n, the setting is n.                        *)
(***************************************************************************)
C9_ConfigurationFallback ==
    (ConfigurationChanged /\ HasNestedSettings(event.settings)) =>
        IF \E n \in CfgNumbers \ {0} : CarriesNumber(event.settings, n)
        THEN CarriesNumber(event.settings, maxNumberOfProblems.n)
        ELSE maxNumberOfProblems = Num(DefaultMax)

\* A configuration change carrying 0 has replaced a setting of 1 by 100.
C9_Witness ==
    /\ ConfigurationChanged
    /\ CarriesNumber(event.settings, 0)
    /\ maxNumberOfProblems = Num(DefaultMax)
    /\ Len(diagnostics) = 1

(***************************************************************************)
(* C10: after a configuration change whose payload lacks the nested        *)
(* settings object, the setting is 100, every open file document has been  *)
(* revalidated and no error was raised.                                    *)
(***************************************************************************)
C10_MalformedConfigurationFallsBack ==
    (ConfigurationChanged /\ ~HasNestedSettings(event.settings)) =>
        /\ maxNumberOfProblems = Num(DefaultMax)
        /\ Len(Sent) = Len(OpenFileDocuments)
        /\ \A i \in DOMAIN effects : effects[i].op # "throw"

(***************************************************************************)
(* C11: every validation of a file document starts exactly one process:    *)
(* the command is ansible-playbook and its arguments are -i, "localhost,"  *)
(* (with the quotes), -c, local, --syntax-check and the local path of the  *)
(* document, that is its URI with the scheme prefix stripped, joined by    *)
(* single spaces on the command line.                                      *)
(***************************************************************************)
\* path is the local path of the file URI: what follows file://, or what
\* follows file: when the URI has no // after the scheme.
FileSlashSlash == <<"f", "i", "l", "e", ":", "/", "/">>
IsPathOf(path, uri) ==
    IF HasPrefix(uri, FileSlashSlash)
    THEN IsPrefixAndRest(uri, FileSlashSlash, path)
    ELSE IsPrefixAndRest(uri, <<"f", "i", "l", "e", ":">>, path)

\* arg is uri without its first seven characters.
IsSevenDropped(arg, uri) ==
    IF Len(uri) <= 7 THEN arg = <<>>
    ELSE /\ Len(arg) = Len(uri) - 7
         /\ \A k \in DOMAIN arg : arg[k] = uri[k + 7]

\* The process e was started with the fixed command and arguments.
IsChecker(e) ==
    /\ e.filename = <<"a", "n", "s", "i", "b", "l", "e", "-",
                      "p", "l", "a", "y", "b", "o", "o", "k">>
    /\ Len(e.cmdLineArgs) = 6
    /\ e.cmdLineArgs[1] = <<"-", "i">>
    /\ e.cmdLineArgs[2] = <<"\"", "l", "o", "c", "a", "l", "h", "o", "s",
                            "t", ",", "\"">>
    /\ e.cmdLineArgs[3] = <<"-", "c">>
    /\ e.cmdLineArgs[4] = <<"l", "o", "c", "a", "l">>
    /\ e.cmdLineArgs[5] = <<"-", "-", "s", "y", "n", "t", "a", "x", "-",
                            "c", "h", "e", "c", "k">>
    /\ e.cmdLine = e.filename \o <<" ">> \o e.cmdLineArgs[1] \o <<" ">>
                     \o e.cmdLineArgs[2] \o <<" ">> \o e.cmdLineArgs[3]
                     \o <<" ">> \o e.cmdLineArgs[4] \o <<" ">>
                     \o e.cmdLineArgs[5] \o <<" ">> \o e.cmdLineArgs[6]
    /\ \E p \in procs : p.pid = e.pid /\ p.cmdLine = e.cmdLine

\* The documents the handler of the last event validated, in order.
Validated ==
    IF event.name \in {"didOpen", "didChangeContent"} THEN <<event.uri>>
    ELSE IF ConfigurationChanged /\ HasNestedSettings(event.settings)
    THEN documents
    ELSE <<>>
ValidatedFileDocuments == SelectSeq(Validated, IsFileUri)

C11_OneCheckerPerValidation ==
    /\ Len(Started) = Len(ValidatedFileDocuments)
    /\ \A i \in DOMAIN Started :
          /\ IsChecker(Started[i])
          /\ IsPathOf(Started[i].cmdLineArgs[6], ValidatedFileDocuments[i])

(***************************************************************************)
(* C11, amended: every validation of a document whose URI starts with      *)
(* file: starts exactly one process, ansible-playbook with the five fixed  *)
(* arguments followed by the URI without its first seven characters.  That *)
(* last argument is the local path when the URI starts with file://        *)
(* (/a for file:///a); for file:/d/b it is /b, not the path /d/b.          *)
(***************************************************************************)
C11_OneCheckerOnUriWithoutSevenCharacters ==
    /\ Len(Started) = Len(ValidatedFileDocuments)
    /\ \A i \in DOMAIN Started :
          LET e == Started[i]
              uri == ValidatedFileDocuments[i]
          IN /\ IsChecker(e)
             /\ IsSevenDropped(e.cmdLineArgs[6], uri)
             /\ HasPrefix(uri, FileSlashSlash) => IsPathOf(e.cmdLineArgs[6], uri)
             /\ uri = UriA => e.cmdLineArgs[6] = <<"/", "a">>
             /\ uri = UriB => e.cmdLineArgs[6] = <<"/", "b">>

\* A configuration change has started one checker for file:///a on /a and
\* one for file:/d/b on /b.
C11_Witness ==
    /\ ConfigurationChanged
    /\ Len(Started) = 2
    /\ \E i, j \in DOMAIN Started :
          /\ ValidatedFileDocuments[i] = UriA
          /\ Started[i].cmdLineArgs[6] = <<"/", "a">>
          /\ ValidatedFileDocuments[j] = UriB
          /\ Started[j].cmdLineArgs[6] = <<"/", "b">>

(***************************************************************************)
(* C12: a callback that delivers the same stderr text as the callback      *)
(* handled just before it, the setting being unchanged in between, leaves  *)
(* the diagnostics list as that callback left it.                          *)
(***************************************************************************)
C12_ReclassifyingIsIdempotent ==
    [][ (event'.name = "execCallback" /\ event'.repeat)
        => ( /\ maxNumberOfProblems' = maxNumberOfProblems
             /\ diagnostics' = diagnostics ) ]_vars

\* Two callbacks in a row have delivered the warning line and the error
\* line, and the list holds the two diagnostics.
C12_Witness ==
    /\ CallbackDone
    /\ event.repeat
    /\ lastRun.result.stderr = TwoLines
    /\ Len(diagnostics) = 2

(***************************************************************************)
(* C13: a completion request returns the list of exactly two items,        *)
(* TypeScript with data 1 then JavaScript with data 2, whatever the        *)
(* position and the state of the server, and it changes neither the        *)
(* diagnostics list, the setting, the open documents nor the processes in  *)
(* flight, and starts no process.                                          *)
(***************************************************************************)
C13_CompletionIsFixedAndPure ==
    /\ [](event.name = "completion" =>
            /\ Len(effects) = 1
            /\ effects[1].op = "return"
            /\ Len(effects[1].items) = 2
            /\ effects[1].items[1].label = "TypeScript"
            /\ effects[1].items[1].data = 1
            /\ effects[1].items[2].label = "JavaScript"
            /\ effects[1].items[2].data = 2)
    /\ [][ event'.name = "completion" =>
             UNCHANGED <<diagnostics, maxNumberOfProblems, documents, procs,
                         lastRun>> ]_vars

\* A completion was requested at line 3 of the untitled document while a
\* process was in flight and the list held two diagnostics.
C13_Witness ==
    /\ event.name = "completion"
    /\ event.uri = UriU
    /\ event.pid = 3
    /\ procs # {}
    /\ Len(diagnostics) = 2

(***************************************************************************)
(* C14: no run is cancelled and the last callback wins.  A handler other   *)
(* than a callback removes no process in flight and leaves the list alone; *)
(* a callback removes its own process only; and the list is always exactly *)
(* what the stderr of the run whose callback ran last gives (computed here *)
(* from the matching lines, nothing kept from earlier runs), whichever     *)
(* processes are still in flight.                                          *)
(***************************************************************************)
\* The diagnostic of the matching line i of lines.
ExpectedDiagnostic(lines, i) ==
    LET t == Stripped(lines[i + 1]) IN
    IF HasPrefix(t, WARNING)
    THEN DiagnosticAt(DiagnosticSeverity.Warning, i,
                      SubSeq(t, Len(WARNING) + 1, Len(t)))
    ELSE DiagnosticAt(DiagnosticSeverity.Error, i,
                      SubSeq(t, Len(ERROR) + 1, Len(t)))

\* The list for a stderr text under a value of the setting.
ExpectedList(stderr, max) ==
    LET lines == split(stderr)
        matching == Ascending(MatchingIndexes(lines))
        n == IF IsNum(max) THEN Min(max.n, Len(matching)) ELSE 0
    IN [j \in 1 .. (IF n > 0 THEN n ELSE 0) |->
           ExpectedDiagnostic(lines, matching[j])]

C14_LastCallbackWins ==
    /\ [](IF SomeRunCompleted
          THEN \E max \in MaxSettings :
                  diagnostics = ExpectedList(lastRun.result.stderr, max)
          ELSE diagnostics = <<>>)
    /\ [](CallbackDone =>
            diagnostics = ExpectedList(lastRun.result.stderr,
                                       maxNumberOfProblems))
    /\ [][ IF event'.name = "execCallback"
           THEN /\ procs' \subseteq procs
                /\ \A p \in procs \ procs' : p.pid = event'.pid
           ELSE /\ procs \subseteq procs'
                /\ diagnostics' = diagnostics ]_vars

\* A run for file:/d/b has completed while a run for file:///a is still in
\* flight: the list is the result of the run for file:/d/b.
C14_Witness ==
    /\ CallbackDone
    /\ event.pid = 2
    /\ \E p \in procs : p.pid = 1 /\ p.cmdLine = CmdLineOf(UriA)
    /\ lastRun.cmdLine = CmdLineOf(UriB)
    /\ lastRun.result.stderr = TwoLines
    /\ Len(diagnostics) = 2

(***************************************************************************)
(* C15: the handler of a configuration change has replaced the setting and *)
(* then validated every open document once: each open file document has    *)
(* exactly one process started and one notification sent for it, in the    *)
(* order of the documents, and the setting is the number the callbacks     *)
(* that fire afterwards classify with.                                     *)
(***************************************************************************)
C15_ConfigurationChangeRevalidatesAll ==
    ConfigurationChanged =>
        /\ IsNum(maxNumberOfProblems)
        /\ Len(Started) = Len(OpenFileDocuments)
        /\ Len(Sent) = Len(OpenFileDocuments)
        /\ \A i \in DOMAIN OpenFileDocuments :
              /\ Started[i].cmdLine = CmdLineOf(OpenFileDocuments[i])
              /\ Sent[i].uri = OpenFileDocuments[i]

(***************************************************************************)
(* The runner on its own: documents are opened and changed and the         *)
(* processes end in every way, among them with the shell's code for a      *)
(* program that is not found, killed by a signal (the error's code is      *)
(* null) and with an error that has no code.  The runner sets no timeout:  *)
(* a process in flight may stay in flight for ever.                        *)
(***************************************************************************)
\* The error of a child killed by a signal, and an error without a code.
ExecErrorKilled == Obj([p \in {"code"} |-> Null])
ExecErrorNoCode == Obj(NoProps)

RunnerOutcomes ==
    RunOutcomes \cup { Outcome(ExecError(127), <<>>, LineX),
                       Outcome(ExecErrorKilled, <<>>, <<>>),
                       Outcome(ExecErrorNoCode, <<>>, LineE) }

\* The processes that can be in flight.
AllProcs ==
    { [pid |-> n, cmdLine |-> CmdLineOf(uri), result |-> newExecResult] :
        n \in 1 .. MaxPending, uri \in {UriA, UriB} }

Terminates(p) ==
    \E o \in RunnerOutcomes : ExecCallback(p, o.error, o.stdout, o.stderr)

NextRunner ==
    \/ \E uri \in Uris : DidOpen(uri)
    \/ \E uri \in Uris : DidChangeContent(uri)
    \/ \E p \in procs : Terminates(p)

SpecRunner == Init /\ [][NextRunner]_vars

\* The code of the error, as the claims read it: the value of its code
\* property, undefined when it has none.
CodeOf(error) ==
    IF "code" \in DOMAIN error.o THEN error.o["code"] ELSE Undefined

\* When a call of the runner returns, its process is in flight with exit
\* code null: the callback has not run inside the call.
NeverSynchronous ==
    /\ \A i \in DOMAIN Started :
          \E p \in procs : /\ p.pid = Started[i].pid
                           /\ p.result.exitCode.t = "null"
    /\ \A p \in procs : p \in AllProcs
    /\ \A p, q \in procs : p.pid = q.pid => p = q

\* A process leaves the set in flight only by its own callback, which
\* removes it alone and delivers the texts and the exit code 0 without an
\* error and the code of the error otherwise.
OneCallbackAtTermination ==
    /\ \A p \in procs :
          p \notin procs' => /\ event'.name = "execCallback"
                             /\ event'.pid = p.pid
                             /\ procs' = procs \ {p}
    /\ event'.name = "execCallback" =>
          \E p \in procs : procs' = procs \ {p}
    /\ \A p \in procs, o \in RunnerOutcomes :
          ExecCallback(p, o.error, o.stdout, o.stderr) =>
             /\ p \notin procs'
             /\ effects' = <<>>
             /\ lastRun'.result.stdout = o.stdout
             /\ lastRun'.result.stderr = o.stderr
             /\ lastRun'.result.exitCode =
                   IF o.error.t = "null" THEN Num(0) ELSE CodeOf(o.error)

(***************************************************************************)
(* C16: every process started is in flight with exit code null when the    *)
(* call returns, its callback runs later, eventually and once (the process *)
(* then leaves the set in flight), the result it delivers has exit code 0  *)
(* when there is no error and the code of the error otherwise, and the     *)
(* exit code is null only before the callback.                             *)
(***************************************************************************)
C16_CallbackOnceAfterTermination ==
    /\ []NeverSynchronous
    /\ \A p \in AllProcs : (p \in procs) ~> (p \notin procs)
    /\ [][OneCallbackAtTermination]_vars
    /\ [](CallbackDone => lastRun.result.exitCode # Null)

(***************************************************************************)
(* C16, amended: the callback never runs inside the call, which returns    *)
(* with the process in flight and exit code null; a process gets at most   *)
(* one callback, the one of its termination (a process that never          *)
(* terminates gets none); the exit code delivered is 0 when there is no    *)
(* error and the value of the error's code otherwise, which is null for a  *)
(* child killed by a signal and undefined for an error without a code.     *)
(***************************************************************************)
C16_AtMostOneCallbackAtTermination ==
    /\ []NeverSynchronous
    /\ [][OneCallbackAtTermination]_vars
    /\ [](CallbackDone =>
            lastRun.result.exitCode
               \in {Null, Undefined, Num(0), Num(2), Num(127)})

\* The callback of a child killed by a signal has delivered the exit code
\* null, while another process is still in flight.
C16_Witness ==
    /\ CallbackDone
    /\ lastRun.result.exitCode = Null
    /\ lastRun.result.stderr = <<>>
    /\ lastRun.result.stdout = <<>>
    /\ procs # {}

(***************************************************************************)
(* C17: the list a callback leaves is the one any other outcome with the   *)
(* same stderr text would have left under the same setting, whatever its   *)
(* exit code (0, 2, 127, or none) and its stdout text.                     *)
(***************************************************************************)
OtherResults(stderr) ==
    { [stdout |-> so, stderr |-> stderr, exitCode |-> ec] :
        so \in { <<>>, <<"o", "k">> },
        ec \in { Null, Num(0), Num(2), Num(127) } }

C17_OutcomeDoesNotMatter ==
    CallbackDone =>
        \A other \in OtherResults(lastRun.result.stderr) :
            handler(other, maxNumberOfProblems) = diagnostics

\* A failed run has delivered two matching lines and both are reported.
C17_Witness ==
    /\ CallbackDone
    /\ lastRun.result.exitCode = Num(2)
    /\ Cardinality(MatchingIndexes(LastLines)) = 2
    /\ Len(diagnostics) = 2

(***************************************************************************)
(* C18: every diagnostic of the list has a range whose start equals its    *)
(* end, at character Number.MAX_VALUE, the source ex, and as line the      *)
(* zero-based index, among all the lines of the stderr text, of the        *)
(* matching line it reports; the lines of the list increase strictly.      *)
(***************************************************************************)
C18_PositioningPolicy ==
    /\ \A j \in DOMAIN diagnostics :
          LET d == diagnostics[j] IN
          /\ d.range.start = d.range.end
          /\ d.range.start.character = NumberMAX_VALUE
          /\ d.source = "ex"
          /\ d.range.start.line \in 0 .. Len(LastLines) - 1
          /\ d.range.start.line = Ascending(MatchingIndexes(LastLines))[j]
          /\ \E n \in 0 .. Len(LastLines[d.range.start.line + 1]) :
                /\ n + Len(d.message) <= Len(LastLines[d.range.start.line + 1])
                /\ SubSeq(LastLines[d.range.start.line + 1], n + 1,
                          n + Len(d.message)) = d.message
    /\ \A j, k \in DOMAIN diagnostics :
          j < k => diagnostics[j].range.start.line
                     < diagnostics[k].range.start.line

\* The second line of the text is the only one reported: the first
\* diagnostic of the list is at line 1.
C18_Witness ==
    /\ CallbackDone
    /\ maxNumberOfProblems = Num(DefaultMax)
    /\ Len(diagnostics) = 1
    /\ diagnostics[1].severity = DiagnosticSeverity.Error
    /\ diagnostics[1].range.start.line = 1
    /\ diagnostics[1].range.end.line = 1

(***************************************************************************)
(* C19: every notification carries at most as many diagnostics as the      *)
(* maximum configured when it is sent.  Stated for a configured maximum of *)
(* 0 or more.                                                              *)
(***************************************************************************)
C19_SentListWithinCurrentMaximum ==
    (IsNum(maxNumberOfProblems) /\ maxNumberOfProblems.n >= 0) =>
        \A i \in DOMAIN Sent :
            Len(Sent[i].diagnostics) <= maxNumberOfProblems.n

(***************************************************************************)
(* C20: a handler runs to its end with no callback in between: every list  *)
(* published is empty or is the whole list that the stderr of the run      *)
(* whose callback ran last gives, and the notifications sent by one        *)
(* handler, such as the one of a configuration change for all the open     *)
(* file documents, all carry the same list.                                *)
(***************************************************************************)
C20_PublishesSeeOneCompleteList ==
    /\ \A i \in DOMAIN Sent :
          \/ Sent[i].diagnostics = <<>>
          \/ /\ SomeRunCompleted
             /\ \E max \in MaxSettings :
                   Sent[i].diagnostics
                      = ExpectedList(lastRun.result.stderr, max)
    /\ \A i, j \in DOMAIN Sent : Sent[i].diagnostics = Sent[j].diagnostics
    /\ ConfigurationChanged => Len(Sent) \in {0, Len(OpenFileDocuments)}

\* A configuration change has published the two diagnostics of the last
\* run for both open file documents.
C20_Witness ==
    /\ ConfigurationChanged
    /\ Len(Sent) = 2
    /\ Sent[1].uri # Sent[2].uri
    /\ Len(Sent[1].diagnostics) = 2
    /\ Len(Sent[2].diagnostics) = 2

====
